---- MODULE Spec2Model ----
(***************************************************************************)
(* Model of utils/blender/bob_plugin.py: the BOB / COB mesh codecs and the *)
(* vertex welding done by class Verts during a BOB export.                 *)
(*                                                                         *)
(* Numbers.  Blender coordinates, normals and UVs are floats.  The model   *)
(* keeps them as integers counted in steps of 0.005, so 1.0 is 200 steps   *)
(* and the welding tolerance 0.01 is 2 steps.  A vector is a tuple of such *)
(* integers; None (no UV layer) is the empty tuple, whose Python truth     *)
(* value is False just as that of None.                                    *)
(* Files are sequences of bytes 0..255, little-endian as struct packs them *)
(* on the platforms Blender runs on.  An 'f' field carries the step count  *)
(* as a 32-bit two's complement number (a stand-in for the IEEE encoding,  *)
(* which no property below depends on).                                    *)
(*                                                                         *)
(* Stale Verts.  A Vert keeps vert.co, vert.normal and the loop's uv as    *)
(* they come from bmesh: vectors wrapping the memory of the BMesh, which   *)
(* to_bmesh frees when the with block of save ends.  The Verts an earlier  *)
(* export left in the class-level lists therefore point into freed memory: *)
(* reading their vectors gives any value, or ends the process.  The model  *)
(* keeps the values they were made with and makes every read of a stale    *)
(* Vert read what the freed memory holds at that moment: the old values,   *)
(* or, once something else has taken the memory, other values.             *)
(***************************************************************************)
EXTENDS Integers, Sequences, FiniteSets, TLC

VARIABLES
    _verts,             \* Verts._verts: the class-level list of Vert objects
    _by_blender_index,  \* Verts._by_blender_index: blender index -> list of refs into _verts
    file,               \* the bytes of the file on disk
    pc,                 \* where the session is: idle, inside save, or an operation's outcome
    bmfaces,            \* save: the faces of bm, each a list of corners
    uv_layer,           \* save: whether the mesh has a UV layer
    faces,              \* save: the local list faces (lists of refs into _verts)
    faceverts,          \* save: the local list faceverts of the face being walked
    written,            \* save: how many faces the index loop has written
    used,               \* polygons handed to the exporters so far in this session
    startLen,           \* len(Verts._verts) when the running export created its Verts()
    assigned,           \* history of Verts.get: the set of <<corner, ref returned>>
    heap,               \* what the freed BMesh memory of earlier exports holds
    res                 \* the outcome of the last load / loadcob

vars == <<_verts, _by_blender_index, file, pc, bmfaces, uv_layer, faces,
          faceverts, written, used, startLen, assigned, heap, res>>

-----------------------------------------------------------------------------
(* Bounds of the model *)

\* polygons exported in one session, over all its exports
MaxFaces == 2
MaxVertexCount == 1
MaxFaceCount == 1

(* Program constants *)

BOB_FILE_ID == 45623
COB_FILE_ID == 13466
\* 1.0, in steps of 0.005 (clamp's default maximum)
One == 200
\* 0.01, in steps of 0.005 (vec_similar's threshold)
Tolerance == 2
UVScale == 65535
NormalScale == 32767

-----------------------------------------------------------------------------
(* Sequence helpers *)

RECURSIVE Concat(_)
Concat(ss) == IF ss = <<>> THEN <<>> ELSE Head(ss) \o Concat(Tail(ss))

Range(s) == {s[i] : i \in 1..Len(s)}

Min2(a, b) == IF a < b THEN a ELSE b
Max2(a, b) == IF a > b THEN a ELSE b

\* Python's int(): truncation toward zero of num / den, den > 0
TruncDiv(num, den) == IF num >= 0 THEN num \div den ELSE -((-num) \div den)

-----------------------------------------------------------------------------
(* struct.pack / struct.unpack *)

RECURSIVE LE(_, _)
LE(n, k) == IF k = 0 THEN <<>> ELSE <<n % 256>> \o LE(n \div 256, k - 1)

RECURSIVE UnLE(_)
UnLE(bs) == IF bs = <<>> THEN 0 ELSE Head(bs) + 256 * UnLE(Tail(bs))

PackI(n) == LE(n, 4)
PackH(n) == LE(n, 2)
Packh(n) == LE(n % 65536, 2)
Packf(x) == LE(x % 65536, 2) \o LE((x \div 65536) % 65536, 2)
Packxx == <<0, 0>>

UnpackI(bs) == UnLE(bs)
UnpackH(bs) == UnLE(bs)
Unpackh(bs) == IF UnLE(bs) >= 32768 THEN UnLE(bs) - 65536 ELSE UnLE(bs)
UnpackSB(bs) == IF bs[1] >= 128 THEN bs[1] - 256 ELSE bs[1]
Unpackf(bs) == UnpackH(SubSeq(bs, 1, 2)) + 65536 * Unpackh(SubSeq(bs, 3, 4))

\* struct.pack raises struct.error for an 'H' argument outside 0..65535
FitsH(n) == n >= 0 /\ n <= 65535

-----------------------------------------------------------------------------
(* clamp, Vert.simmilar, vec_similar *)

clamp(val, minimum, maximum) == Max2(Min2(val, maximum), minimum)

RECURSIVE SqLen(_)
SqLen(v) == IF v = <<>> THEN 0 ELSE Head(v) * Head(v) + SqLen(Tail(v))

VecSub(v1, v2) == [i \in 1..Len(v1) |-> v1[i] - v2[i]]

\* (v1 - v2).length < 0.01, both sides squared
vec_similar(v1, v2) == SqLen(VecSub(v1, v2)) < Tolerance * Tolerance

\* Python truth of a UV: None is False, a 2-vector is True
Truthy(uv) == Len(uv) > 0

simmilar(self, other) ==
    /\ vec_similar(self.coords, other.coords)
    /\ vec_similar(self.normal, other.normal)
    /\ (Truthy(self.uv) /\ Truthy(other.uv)) => vec_similar(self.uv, other.uv)

-----------------------------------------------------------------------------
(* class Verts *)

\* a face corner as save hands it to Verts.get
Corner(bi, co, no, uv) == [blender_index |-> bi, coords |-> co, normal |-> no, uv |-> uv]

\* mutant: the candidates are searched globally, over every Vert made so far
CandidatesGlobal(verts, byidx, bi) == [k \in 1..Len(verts) |-> k]

\* self._by_blender_index[blender_index]: refs (positions in _verts) in first-seen order
Candidates(verts, byidx, bi) == byidx[bi]

\* mutant: the index counts the Verts of this blender index only
NextIndexPerSource(verts, byidx, bi) == Len(byidx[bi])

\* instance.index = len(self._verts)
NextIndex(verts, byidx, bi) == Len(verts)

\* the first candidate similar to the new instance, 0 when there is none; seen is
\* the list with each Vert's vectors as they read at this moment
FirstSimilar(seen, cands, instance) ==
    LET hits == {i \in 1..Len(cands) : simmilar(instance, seen[cands[i]])}
    IN  IF hits = {} THEN 0
        ELSE cands[CHOOSE i \in hits : \A j \in hits : i <= j]

\* Verts.get: the ref it returns and the two class-level collections afterwards
get(verts, byidx, c, seen) ==
    LET instance == [coords |-> c.coords, normal |-> c.normal, uv |-> c.uv]
        other == FirstSimilar(seen, Candidates(verts, byidx, c.blender_index), instance)
        made == [coords |-> c.coords, normal |-> c.normal, uv |-> c.uv,
                 index |-> NextIndex(verts, byidx, c.blender_index)]
    IN  IF other # 0
        THEN [ref |-> other, verts |-> verts, byidx |-> byidx]
        ELSE [ref |-> Len(verts) + 1,
              verts |-> Append(verts, made),
              byidx |-> [byidx EXCEPT ![c.blender_index] = Append(@, Len(verts) + 1)]]

-----------------------------------------------------------------------------
(* The meshes handed to the exporters *)

Up == <<0, 0, One>>
Down == <<0, 0, -One - 1>>
P0 == <<0, 0, 0>>
P1 == <<One, 0, 0>>
P2 == <<0, One, 0>>
P3 == <<One, One, 0>>
P4 == <<-One, 0, 0>>

\* The faces are faces over one set of vertices: vertex 5 is a double of vertex 0
\* (same position and normal), vertex 3 has a normal out of range.
\* the triangle of the spec's scenario: UVs (0,0), (1,0), (0,1)
TriA == <<Corner(0, P0, Up, <<0, 0>>), Corner(1, P1, Up, <<One, 0>>),
          Corner(2, P2, Up, <<0, One>>)>>
\* the square next to TriA, on the double of vertex 0: vertex 1 on a UV seam,
\* vertex 3 with a UV out of range, vertex 2 with a UV two steps (the tolerance) off
Quad == <<Corner(5, P0, Up, <<0, 0>>), Corner(1, P1, Up, <<0, 0>>),
          Corner(3, P3, Down, <<One + 1, -1>>), Corner(2, P2, Up, <<2, One>>)>>
\* vertex 2 with a UV one step (less than the tolerance) off
Pent == <<Corner(0, P0, Up, <<0, 0>>), Corner(1, P1, Up, <<One, 0>>),
          Corner(3, P3, Down, <<One, One>>), Corner(2, P2, Up, <<1, One>>),
          Corner(4, P4, Up, <<0, 0>>)>>

FaceSet == {TriA, Quad, Pent}

BlenderIndices == {c.blender_index : c \in UNION {Range(f) : f \in FaceSet}}

CornersOf(fs) == UNION {Range(fs[i]) : i \in 1..Len(fs)}

\* vert.co and vert.normal belong to the vertex: two corners of one mesh with the
\* same vert.index carry the same position and normal
Consistent(fs) ==
    \A c, d \in CornersOf(fs) :
        c.blender_index = d.blender_index => c.coords = d.coords /\ c.normal = d.normal

FaceSeqs(most) == UNION {[1..n -> FaceSet] : n \in 1..most}

\* the meshes of at most `most` polygons
Meshes(most) == {g \in FaceSeqs(most) : Consistent(g)}

-----------------------------------------------------------------------------
(* Triangulation (Blender's part of save and savecob, lines 338-342) *)

\* the n-2 triangles of the fan of face f around its corner k
Fan(f, k) ==
    LET n == Len(f)
        at(j) == f[((j - 1) % n) + 1]
    IN  [i \in 1..(n - 2) |-> <<at(k), at(k + i), at(k + i + 1)>>]

\* mesh.tessfaces of a polygon: a triangle or a quad is one tessface, a larger
\* polygon is tessellated into triangles
Tessfaces(f) == IF Len(f) <= 4 THEN <<f>> ELSE Fan(f, 1)

NeedsTriangulation(fs, triangulate) ==
    triangulate \/ \E i \in 1..Len(fs) : \E j \in 1..Len(Tessfaces(fs[i])) :
                        Len(Tessfaces(fs[i])[j]) # 3

\* bmesh.ops.triangulate: every face replaced by a fan; k picks the diagonal
Triangulated(fs, k) == Concat([i \in 1..Len(fs) |-> Fan(fs[i], k)])

\* the faces of the mesh once lines 338-342 have run
PreparedFaces(fs, triangulate, k) ==
    IF NeedsTriangulation(fs, triangulate) THEN Triangulated(fs, k) ELSE fs

\* Blender's choices of diagonal
Diagonals == {1, 2}

-----------------------------------------------------------------------------
(* Quantization as save writes it *)

\* int(clamp(uv[0]) * 65535)
EncodeU(u) == TruncDiv(clamp(u, 0, One) * UVScale, One)

\* mutant: V written without the flip
EncodeVNoFlip(v) == TruncDiv(clamp(v, 0, One) * UVScale, One)

\* int((1 - clamp(uv[1])) * 65535)
EncodeV(v) == TruncDiv((One - clamp(v, 0, One)) * UVScale, One)

\* int(clamp(n, -1, 1) * 32767)
EncodeN(n) == TruncDiv(clamp(n, -One, One) * NormalScale, One)

\* one 'fff HH hhh xx' record of the vertex loop of save
VertexRecord(vert) ==
    Packf(vert.coords[1]) \o Packf(vert.coords[2]) \o Packf(vert.coords[3])
    \o (IF Truthy(vert.uv)
        THEN PackH(EncodeU(vert.uv[1])) \o PackH(EncodeV(vert.uv[2]))
        ELSE PackH(0) \o PackH(0))
    \o Packh(EncodeN(vert.normal[1])) \o Packh(EncodeN(vert.normal[2]))
    \o Packh(EncodeN(vert.normal[3]))
    \o Packxx

-----------------------------------------------------------------------------
(* save *)

NoRes == [status |-> "none"]

Resting == {"idle", "FINISHED", "AssertionError", "struct.error"}

\* the Verts made by earlier exports, whose vectors point into a freed BMesh
Stale(ref) == ref <= startLen

\* what the vectors of a stale Vert read as once their memory has been taken
StaleVert == [coords |-> <<-1, -1, -1>>, normal |-> <<0, One, 0>>, uv |-> <<1, 1>>]

\* the list _verts as its Verts read now: index is a Python int of the Vert, the
\* three vectors are whatever the memory they wrap holds
Seen ==
    [k \in 1..Len(_verts) |->
        IF Stale(k) /\ heap = "overwritten"
        THEN [coords |-> StaleVert.coords, normal |-> StaleVert.normal,
              uv |-> StaleVert.uv, index |-> _verts[k].index]
        ELSE _verts[k]]

Init ==
    /\ _verts = <<>>
    /\ _by_blender_index = [bi \in BlenderIndices |-> <<>>]
    /\ file = <<>>
    /\ pc = "idle"
    /\ bmfaces = <<>>
    /\ uv_layer = FALSE
    /\ faces = <<>>
    /\ faceverts = <<>>
    /\ written = 0
    /\ used = 0
    /\ startLen = 0
    /\ assigned = {}
    /\ heap = "kept"
    /\ res = NoRes

\* save, lines 330-355: triangulate if needed, open the file for writing (which
\* empties it), write the magic and the format, create Verts() and faces
SaveOpen ==
    /\ pc \in Resting
    /\ \E fs \in Meshes(MaxFaces - used), triangulate \in BOOLEAN, k \in Diagonals :
        /\ bmfaces' = PreparedFaces(fs, triangulate, k)
        /\ used' = used + Len(fs)
    /\ uv_layer' \in BOOLEAN
    /\ file' = PackI(BOB_FILE_ID) \o PackI(1)
    /\ faces' = <<>>
    /\ faceverts' = <<>>
    /\ written' = 0
    /\ startLen' = Len(_verts)
    /\ res' = NoRes
    /\ pc' = "collect"
    /\ UNCHANGED <<_verts, _by_blender_index, assigned, heap>>

\* Something else is allocated where the freed BMesh of an earlier export was
\* (from line 356 on: the new bmesh, the Vert instances, the growing lists)
Overwrite ==
    /\ pc = "collect"
    /\ startLen > 0
    /\ heap = "kept"
    /\ heap' = "overwritten"
    /\ UNCHANGED <<_verts, _by_blender_index, file, pc, bmfaces, uv_layer, faces,
                   faceverts, written, used, startLen, assigned, res>>

\* save, lines 360-366: one corner of the face loop goes through Verts.get.
\* Comparing with a stale candidate reads freed memory, which may end the process.
Get ==
    /\ pc = "collect"
    /\ Len(faces) < Len(bmfaces)
    /\ LET face == bmfaces[Len(faces) + 1]
           vert == face[Len(faceverts) + 1]
           c == [vert EXCEPT !.uv = IF uv_layer THEN @ ELSE <<>>]
           r == get(_verts, _by_blender_index, c, Seen)
           fv == Append(faceverts, r.ref)
       IN  \/ /\ _verts' = r.verts
              /\ _by_blender_index' = r.byidx
              /\ assigned' = assigned \cup {<<c, r.ref>>}
              /\ IF Len(fv) = Len(face)
                 THEN faces' = Append(faces, fv) /\ faceverts' = <<>>
                 ELSE faces' = faces /\ faceverts' = fv
              /\ UNCHANGED <<file, pc, bmfaces, uv_layer, written, used, startLen,
                             heap, res>>
           \/ /\ \E ref \in Range(Candidates(_verts, _by_blender_index, c.blender_index)) :
                    Stale(ref)
              /\ pc' = "crash"
              /\ UNCHANGED <<_verts, _by_blender_index, file, bmfaces, uv_layer, faces,
                             faceverts, written, used, startLen, assigned, heap, res>>

\* save, lines 368-382: the two counts and one record per Vert of the class list.
\* The record of a stale Vert is made from freed memory.
WriteVerts ==
    /\ pc = "collect"
    /\ Len(faces) = Len(bmfaces)
    /\ \/ /\ file' = file \o PackI(Len(_verts)) \o PackI(Len(faces))
                     \o Concat([k \in 1..Len(_verts) |-> VertexRecord(Seen[k])])
          /\ pc' = IF faces = <<>> THEN "FINISHED" ELSE "faces"
          /\ UNCHANGED <<_verts, _by_blender_index, bmfaces, uv_layer, faces, faceverts,
                         written, used, startLen, assigned, heap, res>>
       \/ /\ startLen > 0
          /\ file' = file \o PackI(Len(_verts)) \o PackI(Len(faces))
          /\ pc' = "crash"
          /\ UNCHANGED <<_verts, _by_blender_index, bmfaces, uv_layer, faces, faceverts,
                         written, used, startLen, assigned, heap, res>>

\* the 'H' fields of one face that reach the file before struct.pack raises
RECURSIVE IndexBytes(_)
IndexBytes(is) ==
    IF is = <<>> \/ ~FitsH(Head(is)) THEN <<>>
    ELSE PackH(Head(is)) \o IndexBytes(Tail(is))

\* save, lines 384-387: one face of the index loop
WriteFace ==
    /\ pc = "faces"
    /\ LET face == faces[written + 1]
           is == [i \in 1..Len(face) |-> _verts[face[i]].index]
       IN  IF Len(face) # 3
           THEN /\ pc' = "AssertionError"
                /\ UNCHANGED <<file, written>>
           ELSE /\ file' = file \o IndexBytes(is)
                /\ IF \A i \in 1..3 : FitsH(is[i])
                   THEN /\ written' = written + 1
                        /\ pc' = IF written + 1 = Len(faces) THEN "FINISHED" ELSE "faces"
                   ELSE /\ written' = written
                        /\ pc' = "struct.error"
    /\ UNCHANGED <<_verts, _by_blender_index, bmfaces, uv_layer, faces, faceverts,
                   used, startLen, assigned, heap, res>>

-----------------------------------------------------------------------------
(* savecob *)

\* mesh.vertices: one position per vertex index of the mesh
MeshVertices(fs) ==
    LET cs == CornersOf(fs)
        n == IF cs = {} THEN 0
             ELSE 1 + CHOOSE m \in {c.blender_index : c \in cs} :
                          \A c \in cs : c.blender_index <= m
    IN  [i \in 1..n |-> IF \E c \in cs : c.blender_index = i - 1
                        THEN (CHOOSE c \in cs : c.blender_index = i - 1).coords
                        ELSE P0]

\* mesh.tessfaces once lines 437-441 have run
MeshTessfaces(fs) == Concat([i \in 1..Len(fs) |-> Tessfaces(fs[i])])

\* the 'I' fields of the face loop of savecob up to the first failing assert
RECURSIVE CobIndexBytes(_)
CobIndexBytes(tfs) ==
    IF tfs = <<>> \/ Len(Head(tfs)) # 3 THEN <<>>
    ELSE Concat([i \in 1..3 |-> PackI(Head(tfs)[i].blender_index)])
         \o CobIndexBytes(Tail(tfs))

\* savecob, lines 429-463, in one step: the bytes left in the file and the outcome
SaveCob ==
    /\ pc \in Resting
    /\ \E fs \in Meshes(MaxFaces - used), triangulate \in BOOLEAN, k \in Diagonals :
        LET prepared == PreparedFaces(fs, triangulate, k)
            vertices == MeshVertices(prepared)
            tessfaces == MeshTessfaces(prepared)
            ok == \A i \in 1..Len(tessfaces) : Len(tessfaces[i]) = 3
            head == PackI(COB_FILE_ID) \o PackI(Len(vertices)) \o PackI(Len(tessfaces))
                    \o Concat([i \in 1..Len(vertices) |->
                                 Packf(vertices[i][1]) \o Packf(vertices[i][2])
                                 \o Packf(vertices[i][3])])
                    \o CobIndexBytes(tessfaces)
            normals == Concat([i \in 1..Len(tessfaces) |->
                                 Packf(tessfaces[i][1].normal[1])
                                 \o Packf(tessfaces[i][1].normal[2])
                                 \o Packf(tessfaces[i][1].normal[3])])
        IN  /\ file' = IF ok THEN head \o normals ELSE head
            /\ pc' = IF ok THEN "FINISHED" ELSE "AssertionError"
            /\ used' = used + Len(fs)
    /\ res' = NoRes
    /\ UNCHANGED <<_verts, _by_blender_index, bmfaces, uv_layer, faces, faceverts,
                   written, startLen, assigned, heap>>

-----------------------------------------------------------------------------
(* load and loadcob *)

Field(buf, pos, n) == SubSeq(buf, pos + 1, pos + n)

\* mutant: the assert on the magic is gone
MagicAny(magic, id) == TRUE

\* assert readstruct("I") == BOB_FILE_ID / COB_FILE_ID
MagicOK(magic, id) == magic = id

\* assert meshFormat in [0, 1]
FormatOK(meshFormat) == meshFormat \in {0, 1}

\* what a loader hands back when it raises: nothing of the mesh exists
Raised(kind, error, consumed, vertsRead, indicesRead) ==
    [kind |-> kind, status |-> error, consumed |-> consumed, vertsRead |-> vertsRead,
     indicesRead |-> indicesRead, meshes |-> 0, vertexCount |-> 0, faces |-> <<>>,
     uvs |-> <<>>]

\* readstruct("b") / readstruct("H") of the index loop of load
ReadIndex(buf, pos, meshFormat) ==
    IF meshFormat = 0 THEN UnpackSB(Field(buf, pos, 1)) ELSE UnpackH(Field(buf, pos, 2))

\* uv_list[vert.index] as line 242 decodes it and line 280 flips it, counted in
\* steps of 1/65535
LoopUV(buf, index) ==
    LET rec == 16 + 24 * index
    IN  <<UnpackH(Field(buf, rec + 12, 2)), UVScale - UnpackH(Field(buf, rec + 14, 2))>>

\* load, lines 220-261, up to the mesh built by from_pydata
load(buf) ==
    IF Len(buf) < 4 THEN Raised("bob", "struct.error", Len(buf), 0, 0)
    ELSE IF ~MagicOK(UnpackI(Field(buf, 0, 4)), BOB_FILE_ID)
    THEN Raised("bob", "AssertionError", 4, 0, 0)
    ELSE IF Len(buf) < 8 THEN Raised("bob", "struct.error", Len(buf), 0, 0)
    ELSE IF ~FormatOK(UnpackI(Field(buf, 4, 4)))
    THEN Raised("bob", "AssertionError", 8, 0, 0)
    ELSE IF Len(buf) < 16 THEN Raised("bob", "struct.error", Len(buf), 0, 0)
    ELSE
    LET meshFormat == UnpackI(Field(buf, 4, 4))
        vertexCount == UnpackI(Field(buf, 8, 4))
        faceCount == UnpackI(Field(buf, 12, 4))
        width == IF meshFormat = 0 THEN 1 ELSE 2
        vertsRead == Min2(vertexCount, (Len(buf) - 16) \div 24)
        start == 16 + 24 * vertexCount
        indicesRead == Min2(faceCount * 3, (Len(buf) - start) \div width)
        indices == [i \in 1..(faceCount * 3) |->
                      ReadIndex(buf, start + (i - 1) * width, meshFormat)]
    IN  IF vertsRead < vertexCount
        THEN Raised("bob", "struct.error", Len(buf), vertsRead, 0)
        ELSE IF indicesRead < faceCount * 3
        THEN Raised("bob", "struct.error", Len(buf), vertsRead, indicesRead)
        ELSE [kind |-> "bob", status |-> "mesh",
              consumed |-> start + faceCount * 3 * width,
              vertsRead |-> vertsRead, indicesRead |-> indicesRead, meshes |-> 1,
              vertexCount |-> vertexCount,
              faces |-> [i \in 1..faceCount |->
                           <<indices[3 * i - 2], indices[3 * i - 1], indices[3 * i]>>],
              uvs |-> <<>>]

\* loadcob, lines 393-421, up to the mesh built by from_pydata
loadcob(buf) ==
    IF Len(buf) < 4 THEN Raised("cob", "struct.error", Len(buf), 0, 0)
    ELSE IF ~MagicOK(UnpackI(Field(buf, 0, 4)), COB_FILE_ID)
    THEN Raised("cob", "AssertionError", 4, 0, 0)
    ELSE IF Len(buf) < 12 THEN Raised("cob", "struct.error", Len(buf), 0, 0)
    ELSE
    LET vertexCount == UnpackI(Field(buf, 4, 4))
        faceCount == UnpackI(Field(buf, 8, 4))
        vertsRead == Min2(vertexCount, (Len(buf) - 12) \div 12)
        start == 12 + 12 * vertexCount
        indicesRead == Min2(faceCount * 3, (Len(buf) - start) \div 4)
        indices == [i \in 1..(faceCount * 3) |-> UnpackI(Field(buf, start + (i - 1) * 4, 4))]
    IN  IF vertsRead < vertexCount
        THEN Raised("cob", "struct.error", Len(buf), vertsRead, 0)
        ELSE IF indicesRead < faceCount * 3
        THEN Raised("cob", "struct.error", Len(buf), vertsRead, indicesRead)
        ELSE [kind |-> "cob", status |-> "mesh",
              consumed |-> start + faceCount * 12,
              vertsRead |-> vertsRead, indicesRead |-> indicesRead, meshes |-> 1,
              vertexCount |-> vertexCount,
              faces |-> [i \in 1..faceCount |->
                           <<indices[3 * i - 2], indices[3 * i - 1], indices[3 * i]>>],
              uvs |-> <<>>]

\* every index of every face names a vertex that was read
IndicesValid(r) ==
    \A i \in 1..Len(r.faces) : \A j \in 1..3 :
        r.faces[i][j] >= 0 /\ r.faces[i][j] < r.vertexCount

\* What Blender does with the mesh from_pydata built.  With valid indices the
\* loader returns it (load after setting the loop UVs, lines 263-288).  With an
\* index outside the vertex list the mesh is corrupt: the loader may raise or
\* return whatever validate() left.
HostOutcomes(r) == IF IndicesValid(r) THEN {"mesh"} ELSE {"mesh", "host error"}

\* load: the whole import of the file as a BOB
Load ==
    /\ pc \in Resting
    /\ res = NoRes
    /\ LET r == load(file)
       IN  IF r.status # "mesh" THEN res' = r
           ELSE \E outcome \in HostOutcomes(r) :
                  res' = [r EXCEPT
                            !.status = outcome,
                            !.uvs = IF IndicesValid(r)
                                    THEN [i \in 1..Len(r.faces) |->
                                            [j \in 1..3 |-> LoopUV(file, r.faces[i][j])]]
                                    ELSE <<>>]
    /\ UNCHANGED <<_verts, _by_blender_index, file, pc, bmfaces, uv_layer, faces,
                   faceverts, written, used, startLen, assigned, heap>>

\* loadcob: the whole import of the file as a COB
LoadCob ==
    /\ pc \in Resting
    /\ res = NoRes
    /\ LET r == loadcob(file)
       IN  IF r.status # "mesh" THEN res' = r
           ELSE \E outcome \in HostOutcomes(r) : res' = [r EXCEPT !.status = outcome]
    /\ UNCHANGED <<_verts, _by_blender_index, file, pc, bmfaces, uv_layer, faces,
                   faceverts, written, used, startLen, assigned, heap>>

-----------------------------------------------------------------------------
(* The session: exports and imports one after the other *)

Next == SaveOpen \/ Overwrite \/ Get \/ WriteVerts \/ WriteFace \/ SaveCob \/ Load \/ LoadCob

Spec == Init /\ [][Next]_vars

\* the exporters alone
NextExport == SaveOpen \/ Overwrite \/ Get \/ WriteVerts \/ WriteFace \/ SaveCob

SpecExport == Init /\ [][NextExport]_vars

-----------------------------------------------------------------------------
(* Imports of arbitrary files: well-formed documents, documents with a foreign   *)
(* magic or format, indices of any value, cut off after any number of bytes      *)

IndexValues == {0, 200}
Magics == {BOB_FILE_ID, COB_FILE_ID}
Formats == {0, 1, 2}

\* (every u32 of these files stays below 2^31, the largest number TLC computes with)
SampleVert == [coords |-> P1, normal |-> Up, uv |-> <<0, One>>]

BobDoc(magic, meshFormat, vertexCount, faceCount, idx) ==
    PackI(magic) \o PackI(meshFormat) \o PackI(vertexCount) \o PackI(faceCount)
    \o Concat([k \in 1..vertexCount |-> VertexRecord(SampleVert)])
    \o Concat([i \in 1..(3 * faceCount) |->
                 IF meshFormat = 0 THEN <<idx[i]>> ELSE PackH(idx[i])])

CobDoc(magic, vertexCount, faceCount, idx) ==
    PackI(magic) \o PackI(vertexCount) \o PackI(faceCount)
    \o Concat([k \in 1..vertexCount |-> Packf(P1[1]) \o Packf(P1[2]) \o Packf(P1[3])])
    \o Concat([i \in 1..(3 * faceCount) |-> PackI(idx[i])])
    \o Concat([i \in 1..faceCount |-> Packf(Up[1]) \o Packf(Up[2]) \o Packf(Up[3])])

\* the buffers a document can be cut down to, the whole document included
Truncations(d) == {SubSeq(d, 1, n) : n \in 0..Len(d)}

InitImport ==
    /\ \E m \in Magics, f \in Formats, vc \in 0..MaxVertexCount, fc \in 0..MaxFaceCount :
          \E idx \in [1..(3 * fc) -> IndexValues] :
              file \in Truncations(BobDoc(m, f, vc, fc, idx))
                       \cup Truncations(CobDoc(m, vc, fc, idx))
    /\ _verts = <<>>
    /\ _by_blender_index = [bi \in BlenderIndices |-> <<>>]
    /\ pc = "idle"
    /\ bmfaces = <<>>
    /\ uv_layer = FALSE
    /\ faces = <<>>
    /\ faceverts = <<>>
    /\ written = 0
    /\ used = 0
    /\ startLen = 0
    /\ assigned = {}
    /\ heap = "kept"
    /\ res = NoRes

NextImport == Load \/ LoadCob

SpecImport == InitImport /\ [][NextImport]_vars

-----------------------------------------------------------------------------
(* Properties *)

\* the file on disk is a BOB that save has written its counts and records to
BobWritten ==
    /\ pc \in {"faces", "FINISHED", "AssertionError"}
    /\ Len(file) >= 16
    /\ UnpackI(Field(file, 0, 4)) = BOB_FILE_ID

\* the vertexCount field of the file
WrittenVertexCount == UnpackI(Field(file, 8, 4))

\* the k-th index (counted from 0) of the index section of a BOB written by save
WrittenIndex(k) == UnpackH(Field(file, 16 + 24 * WrittenVertexCount + 2 * k, 2))

\* C1: every export starts with an empty vertex list and an empty candidate map,
\* so the vertexCount it writes counts only the vertices made from its own corners.
C1_ExportScoped ==
    /\ (pc = "collect" /\ faces = <<>> /\ faceverts = <<>>)
          => (_verts = <<>> /\ \A bi \in BlenderIndices : _by_blender_index[bi] = <<>>)
    /\ pc = "faces" => WrittenVertexCount = Len(_verts) - startLen

\* C2: two corners with different blender_index are never given the same Vert,
\* whatever their position, normal and UV.
C2_Separation ==
    \A p, q \in assigned :
        p[1].blender_index # q[1].blender_index => p[2] # q[2]

\* C2 witness: two numerically identical corners of different blender_index have
\* both been through get.
C2_Witness ==
    \E p, q \in assigned :
        /\ p[1].blender_index # q[1].blender_index
        /\ p[1].coords = q[1].coords /\ p[1].normal = q[1].normal /\ p[1].uv = q[1].uv
        /\ Truthy(p[1].uv)

\* C3: two corners with the same blender_index and identical position, normal and
\* UV get the same Vert index, whatever went through get before or between them.
C3_Idempotence ==
    \A p, q \in assigned :
        p[1] = q[1] => _verts[p[2]].index = _verts[q[2]].index

\* C4 as stated: the triangle with UVs (0,0), (1,0), (0,1), saved and loaded,
\* comes back with 3 vertices, 1 face and UVs (0,1), (1,1), (0,0).
ScenarioLoaded ==
    /\ pc = "FINISHED" /\ bmfaces = <<TriA>> /\ uv_layer /\ startLen = 0
    /\ res.status = "mesh" /\ res.kind = "bob"

C4_RoundTripFlipped ==
    ScenarioLoaded =>
        /\ res.vertexCount = 3 /\ Len(res.faces) = 1
        /\ res.uvs = << << <<0, UVScale>>, <<UVScale, UVScale>>, <<0, 0>> >> >>

\* C4 amended: the triangle with UVs (0,0), (1,0), (0,1), saved by the first
\* export of the session and loaded, comes back with 3 vertices, 1 face and the
\* UVs it went in with, (0,0), (1,0), (0,1): the two flips of V cancel.
C4_RoundTripSame ==
    ScenarioLoaded =>
        /\ res.vertexCount = 3 /\ Len(res.faces) = 1
        /\ res.uvs = << << <<0, 0>>, <<UVScale, 0>>, <<0, UVScale>> >> >>

C4_Witness == ScenarioLoaded

\* C5: when an exporter fails on a face that is not a triangle, no byte has been
\* committed to the output file.
C5_NothingWrittenOnMalformed == pc = "AssertionError" => file = <<>>

\* the bytes a document with the counts of the file's header is made of
BobRequired ==
    16 + 24 * UnpackI(Field(file, 8, 4))
    + 3 * UnpackI(Field(file, 12, 4)) * (IF UnpackI(Field(file, 4, 4)) = 0 THEN 1 ELSE 2)

CobRequired ==
    12 + 12 * UnpackI(Field(file, 4, 4)) + 12 * UnpackI(Field(file, 8, 4))
    + 12 * UnpackI(Field(file, 8, 4))

\* C6: a BOB or COB file with fewer bytes than its declared counts require is
\* rejected and no mesh is returned; a COB requires its per-face normals too.
C6_TruncatedRejected ==
    /\ (res.status # "none" /\ res.kind = "bob" /\ Len(file) >= 16
        /\ Len(file) < BobRequired)
          => (res.status \in {"struct.error", "AssertionError"} /\ res.meshes = 0)
    /\ (res.status # "none" /\ res.kind = "cob" /\ Len(file) >= 12
        /\ Len(file) < CobRequired)
          => (res.status \in {"struct.error", "AssertionError"} /\ res.meshes = 0)

\* a loader stopped on an assert before it read a vertex or an index or made a mesh
RejectedEarly ==
    /\ res.status = "AssertionError"
    /\ res.consumed <= 8 /\ res.vertsRead = 0 /\ res.indicesRead = 0
    /\ res.meshes = 0 /\ res.faces = <<>>

\* C7: load fails on a leading u32 other than 45623 and on a format other than 0
\* or 1, loadcob on a leading u32 other than 13466; each before any vertex or
\* index is read and before any mesh is made.
C7_FormatRejection ==
    /\ (res.status # "none" /\ res.kind = "bob" /\ Len(file) >= 4
        /\ UnpackI(Field(file, 0, 4)) # BOB_FILE_ID) => RejectedEarly
    /\ (res.status # "none" /\ res.kind = "cob" /\ Len(file) >= 4
        /\ UnpackI(Field(file, 0, 4)) # COB_FILE_ID) => RejectedEarly
    /\ (res.status # "none" /\ res.kind = "bob" /\ Len(file) >= 8
        /\ UnpackI(Field(file, 0, 4)) = BOB_FILE_ID
        /\ UnpackI(Field(file, 4, 4)) \notin {0, 1}) => RejectedEarly

\* C7 witness: a complete document with vertices and a face behind a foreign
\* magic has been handed to load and refused.
C7_Witness ==
    /\ res.status = "AssertionError" /\ res.kind = "bob"
    /\ UnpackI(Field(file, 0, 4)) = COB_FILE_ID
    /\ Len(file) >= 12 + 12 + 12 + 12

\* C8: every index of every face a loader decodes is at least 0 and less than
\* vertexCount.
C8_IndexBounds ==
    res.status # "none" /\ res.meshes = 1 =>
        \A i \in 1..Len(res.faces) : \A j \in 1..3 :
            res.faces[i][j] >= 0 /\ res.faces[i][j] < res.vertexCount

\* C9: with format 0, load decodes the index byte b as the unsigned value b.
C9_ByteIndexUnsigned ==
    (res.status # "none" /\ res.kind = "bob" /\ res.meshes = 1
     /\ UnpackI(Field(file, 4, 4)) = 0) =>
        \A i \in 1..Len(res.faces) : \A j \in 1..3 :
            res.faces[i][j] = file[16 + 24 * res.vertexCount + 3 * (i - 1) + j]

\* the Vert at position k of the list has index k, and what save has written
\* agrees with it: the index of a corner is the place, in the list and in the file,
\* of the Vert get gave it, and there lies the record made from that Vert
IndexRecordAgreement ==
    /\ \A k \in 1..Len(_verts) : _verts[k].index = k - 1
    /\ BobWritten =>
        /\ WrittenVertexCount = Len(_verts)
        /\ Len(file) = 16 + 24 * Len(_verts) + 6 * written
        /\ \A f \in 1..written :
            /\ Len(faces[f]) = 3
            /\ \A j \in 1..3 :
                LET idx == WrittenIndex(3 * (f - 1) + (j - 1))
                IN  /\ idx < WrittenVertexCount
                    /\ idx = faces[f][j] - 1
                    /\ Field(file, 16 + 24 * idx, 24) = VertexRecord(Seen[faces[f][j]])

\* C10: the Vert at position k of the vertex list has index k and keeps it, so
\* every index save writes is less than the vertexCount it wrote and names the
\* record of the Vert given to that corner, three indices per face.
C10_IndexRecordAgreement ==
    /\ []IndexRecordAgreement
    /\ [][\A k \in 1..Len(_verts) :
            Len(_verts') >= k /\ _verts'[k].index = _verts[k].index]_vars

\* C10 witness: a finished export of two faces that reused Verts of an earlier
\* export.
C10_Witness ==
    /\ BobWritten /\ pc = "FINISHED" /\ written = 2
    /\ startLen > 0 /\ \E j \in 1..3 : faces[1][j] <= startLen

====
